---- MODULE Spec2Model ----
(***************************************************************************)
(* Model of python-analysis/navigation_eval_analysis.py.                   *)
(*                                                                         *)
(* Strings are sequences of one-character strings, so that Python's        *)
(* substring test, startswith, lower and str.replace are computed and not  *)
(* assumed.  Accuracies are fixed-point numbers in thousandths (0.22 is    *)
(* 220); quotients are kept exact as reduced fractions <<num, den>>.       *)
(* Floating-point rounding is not modelled.                                *)
(***************************************************************************)
EXTENDS Integers, Sequences, FiniteSets, TLC

VARIABLES
    pc,                     \* position of the script (notebook cell / pass)
    eval_data,              \* {dataset: ordered mapping model -> metrics}
    df,                     \* the flattened table
    top_n,                  \* sf_exact, ca_exact, sf_mostly, ca_mostly
    family_best,
    thinking_comparison,
    thinking_improvements,
    company_best,
    dataset_stats,
    common_models,
    comparison_df,
    token_df,
    thinking_tokens,
    complexity_perf,
    generation_perf,
    summary,
    model_name,             \* argument of the classifier under test
    cat,                    \* result of categorize_model(model_name)
    complexity              \* result of get_complexity(model_name)

vars == <<pc, eval_data, df, top_n, family_best, thinking_comparison,
          thinking_improvements, company_best, dataset_stats, common_models,
          comparison_df, token_df, thinking_tokens, complexity_perf,
          generation_perf, summary, model_name, cat, complexity>>


----------------------------------------------------------------------------
(* Bounds *)

\* number of fragments concatenated into a classifier input
MaxFragments == 2
\* number of models per dataset in the input file
MaxModels == 1

----------------------------------------------------------------------------
(* Strings *)

UpperLetters == <<"A","B","C","D","E","F","G","H","I","J","K","L","M",
                  "N","O","P","Q","R","S","T","U","V","W","X","Y","Z">>
LowerLetters == <<"a","b","c","d","e","f","g","h","i","j","k","l","m",
                  "n","o","p","q","r","s","t","u","v","w","x","y","z">>

UpperSet == { UpperLetters[i] : i \in 1..26 }

LowerOf == [c \in UpperSet |->
               LowerLetters[CHOOSE i \in 1..26 : UpperLetters[i] = c]]

LowerChar(c) == IF c \in UpperSet THEN LowerOf[c] ELSE c

\* a sequence given elementwise, as a tuple
List(f) == f \o <<>>

\* str.lower()
Lower(s) == List([i \in 1..Len(s) |-> LowerChar(s[i])])

\* sub in s
Contains(s, sub) ==
    \E i \in 0..(Len(s) - Len(sub)) : SubSeq(s, i + 1, i + Len(sub)) = sub

\* s.startswith(p)
StartsWith(s, p) ==
    Len(p) <= Len(s) /\ SubSeq(s, 1, Len(p)) = p

\* s.replace(old, ''): every non-overlapping occurrence of old, scanning
\* from the left, is removed
RECURSIVE StrRemove(_, _)
StrRemove(s, old) ==
    IF Len(s) < Len(old) \/ Len(old) = 0 THEN s
    ELSE IF SubSeq(s, 1, Len(old)) = old
         THEN StrRemove(SubSeq(s, Len(old) + 1, Len(s)), old)
         ELSE <<Head(s)>> \o StrRemove(Tail(s), old)

kw_o3         == <<"o","3">>
kw_o4         == <<"o","4">>
kw_gpt        == <<"g","p","t">>
kw_claude     == <<"c","l","a","u","d","e">>
kw_grok       == <<"g","r","o","k">>
kw_deepseek   == <<"d","e","e","p","s","e","e","k">>
kw_deepseekr1 == <<"d","e","e","p","s","e","e","k","-","r","1">>
kw_gemini     == <<"g","e","m","i","n","i">>
kw_llama      == <<"l","l","a","m","a">>
kw_kimi       == <<"k","i","m","i">>
kw_thinking   == <<"-","-","t","h","i","n","k","i","n","g">>

----------------------------------------------------------------------------
(* categorize_model *)

IsThinkingR1Any(n) ==
    \/ Contains(n, kw_thinking)
    \/ StartsWith(n, kw_o3) \/ StartsWith(n, kw_o4)
    \/ Contains(n, <<"-","r","1">>)
    \/ Contains(n, kw_grok)
    \/ Contains(n, kw_gemini)

IsThinkingNoGemini(n) ==
    \/ Contains(n, kw_thinking)
    \/ StartsWith(n, kw_o3) \/ StartsWith(n, kw_o4)
    \/ Contains(n, kw_deepseekr1)
    \/ Contains(n, kw_grok)

\* any([...]) over the lower-cased name
IsThinking(n) ==
    \/ Contains(n, kw_thinking)
    \/ StartsWith(n, kw_o3) \/ StartsWith(n, kw_o4)
    \/ Contains(n, kw_deepseekr1)
    \/ Contains(n, kw_grok)
    \/ Contains(n, kw_gemini)

\* the if/elif chain that determines the family
Family(n) ==
    IF Contains(n, kw_o3) \/ Contains(n, kw_o4) THEN "o-series"
    ELSE IF Contains(n, kw_gpt)      THEN "gpt"
    ELSE IF Contains(n, kw_claude)   THEN "claude"
    ELSE IF Contains(n, kw_grok)     THEN "grok"
    ELSE IF Contains(n, kw_deepseek) THEN "deepseek"
    ELSE IF Contains(n, kw_gemini)   THEN "gemini"
    ELSE IF Contains(n, kw_llama)    THEN "llama"
    ELSE IF Contains(n, kw_kimi)     THEN "kimi"
    ELSE "other"

\* the if/elif chain that determines the company
Company(n) ==
    IF Contains(n, kw_gpt) \/ Contains(n, kw_o3) \/ Contains(n, kw_o4)
        THEN "openai"
    ELSE IF Contains(n, kw_claude)   THEN "anthropic"
    ELSE IF Contains(n, kw_gemini)   THEN "google"
    ELSE IF Contains(n, kw_grok)     THEN "x-ai"
    ELSE IF Contains(n, kw_deepseek) THEN "deepseek"
    ELSE IF Contains(n, kw_kimi)     THEN "moonshot"
    ELSE IF Contains(n, kw_llama)    THEN "meta"
    ELSE "other"

categorize_model(name) ==
    LET n == Lower(name)
    IN  [family |-> Family(n), company |-> Company(n),
         is_thinking |-> IsThinking(n)]

----------------------------------------------------------------------------
(* Classifier inputs: concatenations of at most MaxFragments fragments.    *)
(* The fragments are the keywords, the markers, upper-case spellings,      *)
(* neutral text, and the two halves of a keyword.                          *)

Fragments ==
    { kw_o3, kw_o4, kw_gpt, kw_claude, kw_grok, kw_deepseek, kw_gemini,
      kw_llama, kw_kimi, kw_thinking,
      <<"-","r","1">>, <<"x">>, <<"o">>, <<"3">>,
      <<"G","P","T">>, <<"K","i","m","i">>, <<"-","-","T","h","i","n","k","i","n","g">> }

RECURSIVE Concatenations(_)
Concatenations(k) ==
    IF k = 0 THEN { <<>> }
    ELSE LET shorter == Concatenations(k - 1)
         IN  shorter \cup { s \o f : s \in shorter, f \in Fragments }

ClassifierInputs == Concatenations(MaxFragments)

Unset == "unset"

----------------------------------------------------------------------------
(* Model names and metrics records of the pipeline *)

m_opus == <<"c","l","a","u","d","e","-","o","p","u","s","-","4","-","2",
            "0","2","5","0","5","1","4">>
m_grok4 == <<"g","r","o","k","-","4">>
m_sonnet37 == <<"c","l","a","u","d","e","-","3","-","7","-","s","o","n","n",
                "e","t","-","2","0","2","5","0","2","1","9">>
m_sonnet4 == <<"c","l","a","u","d","e","-","s","o","n","n","e","t","-","4",
               "-","2","0","2","5","0","5","1","4">>

\* the hard-coded supplemental block, as ordered (model, metrics) items
thinking_results ==
    [sf |-> << <<m_sonnet37 \o kw_thinking,
                 [totalSamples |-> 26, exactlyCorrect |-> 2, mostlyCorrect |-> 2,
                  exactAccuracy |-> 77, mostlyAccuracy |-> 77,
                  totalAccuracy |-> 154]>>,
               <<m_opus \o kw_thinking,
                 [totalSamples |-> 50, exactlyCorrect |-> 8, mostlyCorrect |-> 3,
                  exactAccuracy |-> 160, mostlyAccuracy |-> 60,
                  totalAccuracy |-> 220]>>,
               <<m_sonnet4 \o kw_thinking,
                 [totalSamples |-> 50, exactlyCorrect |-> 4, mostlyCorrect |-> 4,
                  exactAccuracy |-> 80, mostlyAccuracy |-> 80,
                  totalAccuracy |-> 160]>> >>,
     ca |-> << <<m_sonnet37 \o kw_thinking,
                 [totalSamples |-> 50, exactlyCorrect |-> 19, mostlyCorrect |-> 0,
                  exactAccuracy |-> 380, mostlyAccuracy |-> 0,
                  totalAccuracy |-> 380]>>,
               <<m_opus \o kw_thinking,
                 [totalSamples |-> 50, exactlyCorrect |-> 26, mostlyCorrect |-> 1,
                  exactAccuracy |-> 520, mostlyAccuracy |-> 20,
                  totalAccuracy |-> 540]>>,
               <<m_sonnet4 \o kw_thinking,
                 [totalSamples |-> 50, exactlyCorrect |-> 21, mostlyCorrect |-> 0,
                  exactAccuracy |-> 420, mostlyAccuracy |-> 0,
                  totalAccuracy |-> 420]>> >>]

\* model names the input file may hold
FileModels ==
    { m_opus, m_opus \o kw_thinking, m_opus \o kw_thinking \o kw_thinking,
      m_grok4 }

\* metrics records the input file may hold; the analyzer validates nothing,
\* so the last one (exactAccuracy 1.5, stored totalAccuracy 0.3) is accepted
FileRecords ==
    { [totalSamples |-> 50, exactlyCorrect |-> 8, mostlyCorrect |-> 3,
       exactAccuracy |-> 160, mostlyAccuracy |-> 60],
      [totalSamples |-> 50, exactlyCorrect |-> 0, mostlyCorrect |-> 0,
       exactAccuracy |-> 0, mostlyAccuracy |-> 0, totalAccuracy |-> 0,
       avgOutputTokens |-> 500],
      [totalSamples |-> 50, exactlyCorrect |-> 75, mostlyCorrect |-> 0,
       exactAccuracy |-> 1500, mostlyAccuracy |-> 0, totalAccuracy |-> 300,
       avgOutputTokens |-> 2000] }

\* ordered mappings with distinct keys (a JSON object read by json.load)
\* and at most k items
RECURSIVE FileDatasets(_)
FileDatasets(k) ==
    IF k = 0 THEN { <<>> }
    ELSE LET shorter == FileDatasets(k - 1)
         IN  shorter \cup
             UNION { { Append(d, <<m, r>>) :
                         m \in FileModels \ { d[i][1] : i \in 1..Len(d) },
                         r \in FileRecords } :
                     d \in { e \in shorter : Len(e) = k - 1 } }

----------------------------------------------------------------------------
(* dict operations *)

HasKey(d, k) == \E i \in 1..Len(d) : d[i][1] = k

\* d[k] = v: an existing key keeps its position, a new key goes last
SetItem(d, k, v) ==
    IF HasKey(d, k)
    THEN [i \in 1..Len(d) |-> IF d[i][1] = k THEN <<k, v>> ELSE d[i]]
    ELSE Append(d, <<k, v>>)

UpdateDropped(d, other) == d

\* d.update(other)
RECURSIVE Update(_, _)
Update(d, other) ==
    IF other = <<>> THEN d
    ELSE Update(SetItem(d, Head(other)[1], Head(other)[2]), Tail(other))

\* data.get(key, default)
Get(data, key, default) ==
    IF key \in DOMAIN data THEN data[key] ELSE default

----------------------------------------------------------------------------
(* The flattened table *)

TotalAccuracyAlwaysSum(data) ==
    data.exactAccuracy + data.mostlyAccuracy

\* data.get('totalAccuracy', data['exactAccuracy'] + data['mostlyAccuracy'])
TotalAccuracy(data) ==
    Get(data, "totalAccuracy", data.exactAccuracy + data.mostlyAccuracy)

ResultRowTotalIsMostly(dataset, model, data) ==
    LET c == categorize_model(model)
    IN  [model |-> model, dataset |-> dataset,
         family |-> c.family, company |-> c.company,
         is_thinking |-> c.is_thinking,
         exact_accuracy |-> data.exactAccuracy,
         mostly_accuracy |-> data.mostlyAccuracy,
         total_accuracy |-> data.mostlyAccuracy,
         total_samples |-> data.totalSamples]

ResultRow(dataset, model, data) ==
    LET c == categorize_model(model)
    IN  [model |-> model, dataset |-> dataset,
         family |-> c.family, company |-> c.company,
         is_thinking |-> c.is_thinking,
         exact_accuracy |-> data.exactAccuracy,
         mostly_accuracy |-> data.mostlyAccuracy,
         total_accuracy |-> TotalAccuracy(data),
         total_samples |-> data.totalSamples]

ResultRows(ed, dataset) ==
    List([i \in 1..Len(ed[dataset]) |->
            ResultRow(dataset, ed[dataset][i][1], ed[dataset][i][2])])

BaseColumns ==
    {"model", "dataset", "family", "company", "is_thinking",
     "exact_accuracy", "mostly_accuracy", "total_accuracy", "total_samples"}

\* rows of a table that satisfy a dataset filter, in table order
RowsOf(table, dataset) ==
    SelectSeq(table, LAMBDA r : r.dataset = dataset)

----------------------------------------------------------------------------
(* Arithmetic and aggregation helpers *)

Abs(x) == IF x < 0 THEN -x ELSE x

RECURSIVE GCD(_, _)
GCD(a, b) == IF b = 0 THEN a ELSE GCD(b, a % b)

\* result of a floating-point division by zero (inf or nan)
InfOrNaN == "inf_or_nan"

\* n / d as a reduced fraction with positive denominator
Frac(n, d) ==
    IF d = 0 THEN InfOrNaN
    ELSE LET g == GCD(Abs(n), Abs(d))
             s == IF d < 0 THEN -1 ELSE 1
         IN  <<(s * n) \div g, (s * d) \div g>>

RECURSIVE SumCol(_, _)
SumCol(rows, col) ==
    IF rows = <<>> THEN 0 ELSE Head(rows)[col] + SumCol(Tail(rows), col)

\* Series.mean(); the mean of an empty series is nan
MeanCol(rows, col) ==
    IF rows = <<>> THEN InfOrNaN ELSE Frac(SumCol(rows, col), Len(rows))

\* Series.max() of a non-empty series
MaxCol(rows, col) ==
    CHOOSE v \in { rows[i][col] : i \in 1..Len(rows) } :
        \A i \in 1..Len(rows) : rows[i][col] <= v

\* the mean / max / count part of a groupby(...).agg(...); std, median and
\* round() only shape the printed report and are left out
Agg(rows) ==
    [exact_mean |-> MeanCol(rows, "exact_accuracy"),
     exact_max  |-> MaxCol(rows, "exact_accuracy"),
     total_mean |-> MeanCol(rows, "total_accuracy"),
     total_max  |-> MaxCol(rows, "total_accuracy"),
     count      |-> Len(rows)]

\* groupby([dataset, col]).agg(...), keyed by the groups that occur
GroupAgg(table, col) ==
    [g \in { <<table[i].dataset, table[i][col]>> : i \in 1..Len(table) } |->
        Agg(SelectSeq(table, LAMBDA r : r.dataset = g[1] /\ r[col] = g[2]))]

RemoveAt(s, i) == SubSeq(s, 1, i - 1) \o SubSeq(s, i + 1, Len(s))

\* position of the first row holding the maximum of col
FirstMaxPos(rows, col) ==
    CHOOSE i \in 1..Len(rows) :
        /\ \A j \in 1..Len(rows) : rows[j][col] <= rows[i][col]
        /\ \A j \in 1..(i - 1) : rows[j][col] < rows[i][col]

\* DataFrame.nlargest(n, col), keep='first'
RECURSIVE NLargest(_, _, _)
NLargest(rows, n, col) ==
    IF n = 0 \/ rows = <<>> THEN <<>>
    ELSE LET i == FirstMaxPos(rows, col)
         IN  <<rows[i]>> \o NLargest(RemoveAt(rows, i), n - 1, col)

\* df[[c1, c2, ...]]
Project(rows, cols) ==
    [i \in 1..Len(rows) |-> [c \in cols |-> rows[i][c]]]

----------------------------------------------------------------------------
(* Group-best: df.loc[df.groupby([dataset, key])[total_accuracy].idxmax()] *)

\* groupby sorts the group keys
DatasetOrder == <<"ca", "sf">>
FamilyOrder  == <<"claude", "deepseek", "gemini", "gpt", "grok", "kimi",
                  "llama", "o-series", "other">>
CompanyOrder == <<"anthropic", "deepseek", "google", "meta", "moonshot",
                  "openai", "other", "x-ai">>

GroupIdx(table, keycol, dataset, key) ==
    { i \in 1..Len(table) :
        table[i].dataset = dataset /\ table[i][keycol] = key }

IdxMaxLast(table, idx, col) ==
    CHOOSE i \in idx :
        /\ \A j \in idx : table[j][col] <= table[i][col]
        /\ \A j \in idx : j > i => table[j][col] < table[i][col]

\* idxmax over one group: the first index label holding the maximum
IdxMax(table, idx, col) ==
    CHOOSE i \in idx :
        /\ \A j \in idx : table[j][col] <= table[i][col]
        /\ \A j \in idx : j < i => table[j][col] < table[i][col]

GroupKeys(keyorder) ==
    [n \in 1..(Len(DatasetOrder) * Len(keyorder)) |->
        <<DatasetOrder[((n - 1) \div Len(keyorder)) + 1],
          keyorder[((n - 1) % Len(keyorder)) + 1]>>]

GroupBest(table, keycol, keyorder) ==
    LET present == SelectSeq(GroupKeys(keyorder),
                     LAMBDA g : GroupIdx(table, keycol, g[1], g[2]) # {})
    IN  [n \in 1..Len(present) |->
            table[IdxMax(table,
                         GroupIdx(table, keycol, present[n][1], present[n][2]),
                         "total_accuracy")]]

----------------------------------------------------------------------------
(* Paired thinking improvement *)

\* set(df[df.dataset == dataset].model.str.replace('--thinking', ''))
ModelsInDataset(table, dataset) ==
    { StrRemove(table[i].model, kw_thinking) :
        i \in { j \in 1..Len(table) : table[j].dataset = dataset } }

RowsFor(table, dataset, model) ==
    SelectSeq(table, LAMBDA r : r.dataset = dataset /\ r.model = model)

ImprovementReversed(thinking_acc, base_acc) == base_acc - thinking_acc

Improvement(thinking_acc, base_acc) == thinking_acc - base_acc

RelativeImprovementUnguarded(improvement, base_acc) ==
    Frac(improvement, base_acc)

\* improvement / base_acc if base_acc > 0 else 0
RelativeImprovement(improvement, base_acc) ==
    IF base_acc > 0 THEN Frac(improvement, base_acc) ELSE <<0, 1>>

\* base models for which both versions exist in the dataset
Paired(table, dataset) ==
    { b \in ModelsInDataset(table, dataset) :
        /\ RowsFor(table, dataset, b) # <<>>
        /\ RowsFor(table, dataset, b \o kw_thinking) # <<>> }

ImprovementEntry(table, dataset, base_model) ==
    LET base_acc == RowsFor(table, dataset, base_model)[1].total_accuracy
        thinking_acc ==
            RowsFor(table, dataset, base_model \o kw_thinking)[1].total_accuracy
        improvement == Improvement(thinking_acc, base_acc)
    IN  [dataset |-> dataset, base_model |-> base_model,
         base_accuracy |-> base_acc, thinking_accuracy |-> thinking_acc,
         improvement |-> improvement,
         relative_improvement |-> RelativeImprovement(improvement, base_acc)]

\* iteration orders of a set
Orderings(S) ==
    { s \in [1..Cardinality(S) -> S] :
        \A i, j \in 1..Cardinality(S) : s[i] = s[j] => i = j }

----------------------------------------------------------------------------
(* Token table, complexity and generation *)

TokenRow(dataset, model, data) ==
    LET c == categorize_model(model)
    IN  [model |-> model, dataset |-> dataset, family |-> c.family,
         is_thinking |-> c.is_thinking,
         avg_tokens |-> data.avgOutputTokens,
         total_accuracy |-> TotalAccuracy(data)]

TokenRowsUnfiltered(ed, dataset) ==
    [i \in 1..Len(ed[dataset]) |->
        LET it == ed[dataset][i]
            c == categorize_model(it[1])
        IN  [model |-> it[1], dataset |-> dataset, family |-> c.family,
             is_thinking |-> c.is_thinking,
             avg_tokens |-> Get(it[2], "avgOutputTokens", 1),
             total_accuracy |-> TotalAccuracy(it[2])]]

TokenRows(ed, dataset) ==
    LET items == SelectSeq(ed[dataset],
                           LAMBDA it : "avgOutputTokens" \in DOMAIN it[2])
    IN  [i \in 1..Len(items) |-> TokenRow(dataset, items[i][1], items[i][2])]

\* total_accuracy / avg_tokens * 1000, in thousandths like total_accuracy
Efficiency(total_accuracy, avg_tokens) ==
    Frac(total_accuracy * 1000, avg_tokens)

kw_haiku  == <<"h","a","i","k","u">>
kw_mini   == <<"m","i","n","i">>
kw_sonnet == <<"s","o","n","n","e","t">>
kw_gpt4   == <<"g","p","t","-","4">>
kw_opus   == <<"o","p","u","s">>
kw_turbo  == <<"t","u","r","b","o">>
kw_2025   == <<"2","0","2","5">>
kw_2024   == <<"2","0","2","4">>
kw_grok4  == <<"g","r","o","k","-","4">>

\* the dict, in insertion order
complexity_order ==
    << <<kw_haiku, 1>>, <<kw_mini, 2>>, <<kw_sonnet, 3>>, <<kw_gpt4, 4>>,
       <<kw_opus, 5>>, <<kw_turbo, 4>>, <<kw_o3, 6>>, <<kw_o4, 7>>,
       <<kw_grok, 5>>, <<kw_gemini, 4>> >>

get_complexity(name) ==
    LET model_lower == Lower(name)
        hits == { i \in 1..Len(complexity_order) :
                    Contains(model_lower, complexity_order[i][1]) }
    IN  IF hits = {} THEN 3
        ELSE complexity_order[CHOOSE i \in hits : \A j \in hits : i <= j][2]

\* no lower-casing here
get_generation(name) ==
    IF \/ Contains(name, kw_2025) \/ Contains(name, kw_o3)
       \/ Contains(name, kw_o4) \/ Contains(name, kw_grok4)
    THEN "2025"
    ELSE IF Contains(name, kw_2024) THEN "2024"
    ELSE "older"

AddComplexityReordered(table) ==
    List([i \in 1..Len(table) |->
            table[Len(table) + 1 - i]
            @@ ("complexity" :> get_complexity(table[Len(table) + 1 - i].model))])

\* df['complexity'] = df['model'].apply(get_complexity)
AddComplexity(table) ==
    List([i \in 1..Len(table) |->
            table[i] @@ ("complexity" :> get_complexity(table[i].model))])

\* df['generation'] = df['model'].apply(get_generation)
AddGeneration(table) ==
    List([i \in 1..Len(table) |->
            table[i] @@ ("generation" :> get_generation(table[i].model))])

----------------------------------------------------------------------------
(* The script, cell by cell *)

Init ==
    /\ pc = "merge"
    /\ \E K \in SUBSET {"sf", "ca"} :
           eval_data \in [K -> FileDatasets(MaxModels)]
    /\ df = Unset /\ top_n = Unset /\ family_best = Unset
    /\ thinking_comparison = Unset /\ thinking_improvements = Unset
    /\ company_best = Unset /\ dataset_stats = Unset
    /\ common_models = Unset /\ comparison_df = Unset
    /\ token_df = Unset /\ thinking_tokens = Unset
    /\ complexity_perf = Unset /\ generation_perf = Unset
    /\ summary = Unset
    /\ model_name = Unset /\ cat = Unset /\ complexity = Unset

\* for dataset in ['sf', 'ca']: eval_data[dataset].update(...); a missing
\* key raises KeyError after the earlier iterations have taken effect
Merge ==
    /\ pc = "merge"
    /\ IF "sf" \notin DOMAIN eval_data
       THEN /\ pc' = "KeyError"
            /\ eval_data' = eval_data
       ELSE IF "ca" \notin DOMAIN eval_data
       THEN /\ pc' = "KeyError"
            /\ eval_data' = [eval_data EXCEPT
                   !["sf"] = Update(@, thinking_results["sf"])]
       ELSE /\ pc' = "flatten"
            /\ eval_data' = [d \in DOMAIN eval_data |->
                   Update(eval_data[d], thinking_results[d])]
    /\ UNCHANGED <<df, top_n, family_best, thinking_comparison,
                   thinking_improvements, company_best, dataset_stats,
                   common_models, comparison_df, token_df, thinking_tokens,
                   complexity_perf, generation_perf, summary, model_name, cat, complexity>>

\* results = [...]; df = pd.DataFrame(results)
Flatten ==
    /\ pc = "flatten"
    /\ df' = ResultRows(eval_data, "sf") \o ResultRows(eval_data, "ca")
    /\ pc' = "top_n"
    /\ UNCHANGED <<eval_data, top_n, family_best, thinking_comparison,
                   thinking_improvements, company_best, dataset_stats,
                   common_models, comparison_df, token_df, thinking_tokens,
                   complexity_perf, generation_perf, summary, model_name, cat, complexity>>

TopN ==
    /\ pc = "top_n"
    /\ top_n' =
         [sf_exact |-> Project(NLargest(RowsOf(df, "sf"), 10, "exact_accuracy"),
                         {"model", "exact_accuracy", "family", "is_thinking"}),
          ca_exact |-> Project(NLargest(RowsOf(df, "ca"), 10, "exact_accuracy"),
                         {"model", "exact_accuracy", "family", "is_thinking"}),
          sf_mostly |-> Project(NLargest(RowsOf(df, "sf"), 10, "total_accuracy"),
                         {"model", "total_accuracy", "mostly_accuracy",
                          "family", "is_thinking"}),
          ca_mostly |-> Project(NLargest(RowsOf(df, "ca"), 10, "total_accuracy"),
                         {"model", "total_accuracy", "mostly_accuracy",
                          "family", "is_thinking"})]
    /\ pc' = "family_best"
    /\ UNCHANGED <<eval_data, df, family_best, thinking_comparison,
                   thinking_improvements, company_best, dataset_stats,
                   common_models, comparison_df, token_df, thinking_tokens,
                   complexity_perf, generation_perf, summary, model_name, cat, complexity>>

FamilyBest ==
    /\ pc = "family_best"
    /\ family_best' = GroupBest(df, "family", FamilyOrder)
    /\ pc' = "thinking_comparison"
    /\ UNCHANGED <<eval_data, df, top_n, thinking_comparison,
                   thinking_improvements, company_best, dataset_stats,
                   common_models, comparison_df, token_df, thinking_tokens,
                   complexity_perf, generation_perf, summary, model_name, cat, complexity>>

ThinkingComparison ==
    /\ pc = "thinking_comparison"
    /\ thinking_comparison' = GroupAgg(df, "is_thinking")
    /\ pc' = "thinking_improvements"
    /\ UNCHANGED <<eval_data, df, top_n, family_best,
                   thinking_improvements, company_best, dataset_stats,
                   common_models, comparison_df, token_df, thinking_tokens,
                   complexity_perf, generation_perf, summary, model_name, cat, complexity>>

\* the base models of a dataset are visited in set-iteration order
PairedImprovement ==
    /\ pc = "thinking_improvements"
    /\ \E osf \in Orderings(Paired(df, "sf")),
          oca \in Orderings(Paired(df, "ca")) :
           thinking_improvements' =
               [i \in 1..Len(osf) |-> ImprovementEntry(df, "sf", osf[i])]
               \o [i \in 1..Len(oca) |-> ImprovementEntry(df, "ca", oca[i])]
    /\ pc' = "company_best"
    /\ UNCHANGED <<eval_data, df, top_n, family_best, thinking_comparison,
                   company_best, dataset_stats,
                   common_models, comparison_df, token_df, thinking_tokens,
                   complexity_perf, generation_perf, summary, model_name, cat, complexity>>

CompanyBest ==
    /\ pc = "company_best"
    /\ company_best' = GroupBest(df, "company", CompanyOrder)
    /\ pc' = "cross_dataset"
    /\ UNCHANGED <<eval_data, df, top_n, family_best, thinking_comparison,
                   thinking_improvements, dataset_stats,
                   common_models, comparison_df, token_df, thinking_tokens,
                   complexity_perf, generation_perf, summary, model_name, cat, complexity>>

ComparisonRow(table, model) ==
    LET sf_perf == RowsFor(table, "sf", model)[1]
        ca_perf == RowsFor(table, "ca", model)[1]
    IN  [model |-> model,
         sf_exact |-> sf_perf.exact_accuracy,
         ca_exact |-> ca_perf.exact_accuracy,
         sf_total |-> sf_perf.total_accuracy,
         ca_total |-> ca_perf.total_accuracy,
         exact_diff |-> ca_perf.exact_accuracy - sf_perf.exact_accuracy,
         total_diff |-> ca_perf.total_accuracy - sf_perf.total_accuracy]

CommonModels(table) ==
    { table[i].model : i \in { j \in 1..Len(table) : table[j].dataset = "sf" } }
    \cap
    { table[i].model : i \in { j \in 1..Len(table) : table[j].dataset = "ca" } }

\* comparison_df is assigned only under "if common_models:", and read by
\* the chart code after it; its rows follow set-iteration order, so the
\* table is kept as the set of its rows
CrossDataset ==
    /\ pc = "cross_dataset"
    /\ dataset_stats' =
         [d \in { df[i].dataset : i \in 1..Len(df) } |-> Agg(RowsOf(df, d))]
    /\ common_models' = CommonModels(df)
    /\ IF CommonModels(df) # {}
       THEN /\ comparison_df' =
                   { ComparisonRow(df, m) : m \in CommonModels(df) }
            /\ pc' = "token_usage"
       ELSE /\ comparison_df' = comparison_df
            /\ pc' = "NameError"
    /\ UNCHANGED <<eval_data, df, top_n, family_best, thinking_comparison,
                   thinking_improvements, company_best,
                   token_df, thinking_tokens,
                   complexity_perf, generation_perf, summary, model_name, cat, complexity>>

\* token_data = [...]; token_df = pd.DataFrame(token_data); the efficiency
\* column is added under "if not token_df.empty:"
TokenUsage ==
    /\ pc = "token_usage"
    /\ LET token_data == TokenRows(eval_data, "sf") \o TokenRows(eval_data, "ca")
       IN  /\ token_df' =
                 [i \in 1..Len(token_data) |->
                     token_data[i] @@
                     ("efficiency" :> Efficiency(token_data[i].total_accuracy,
                                                 token_data[i].avg_tokens))]
           /\ thinking_tokens' =
                 IF token_data = <<>> THEN thinking_tokens
                 ELSE [g \in { <<token_data[i].dataset, token_data[i].is_thinking>> :
                                 i \in 1..Len(token_data) } |->
                         MeanCol(SelectSeq(token_data,
                                   LAMBDA r : r.dataset = g[1]
                                              /\ r.is_thinking = g[2]),
                                 "avg_tokens")]
    /\ pc' = "complexity"
    /\ UNCHANGED <<eval_data, df, top_n, family_best, thinking_comparison,
                   thinking_improvements, company_best, dataset_stats,
                   common_models, comparison_df,
                   complexity_perf, generation_perf, summary, model_name, cat, complexity>>

\* the complexity cell: the new column, then the grouped report
Complexity ==
    /\ pc = "complexity"
    /\ df' = AddComplexity(df)
    /\ complexity_perf' = GroupAgg(df', "complexity")
    /\ pc' = "generation"
    /\ UNCHANGED <<eval_data, top_n, family_best, thinking_comparison,
                   thinking_improvements, company_best, dataset_stats,
                   common_models, comparison_df, token_df, thinking_tokens,
                   generation_perf, summary, model_name, cat, complexity>>

\* the generation cell: the new column, then the grouped report
Generation ==
    /\ pc = "generation"
    /\ df' = AddGeneration(df)
    /\ generation_perf' = GroupAgg(df', "generation")
    /\ pc' = "summary"
    /\ UNCHANGED <<eval_data, top_n, family_best, thinking_comparison,
                   thinking_improvements, company_best, dataset_stats,
                   common_models, comparison_df, token_df, thinking_tokens,
                   complexity_perf, summary, model_name, cat, complexity>>

\* mean(thinking) - mean(non-thinking); nan when either side is empty
Advantage(table, dataset) ==
    LET t == SelectSeq(table, LAMBDA r : r.dataset = dataset /\ r.is_thinking)
        n == SelectSeq(table, LAMBDA r : r.dataset = dataset /\ ~r.is_thinking)
    IN  IF t = <<>> \/ n = <<>> THEN InfOrNaN
        ELSE Frac(SumCol(t, "total_accuracy") * Len(n)
                    - SumCol(n, "total_accuracy") * Len(t),
                  Len(t) * Len(n))

\* the summary cell reads df and the tables family_best and company_best
\* left by the earlier cells
Summary ==
    /\ pc = "summary"
    /\ summary' =
         [sf_best |-> NLargest(RowsOf(df, "sf"), 1, "total_accuracy")[1],
          ca_best |-> NLargest(RowsOf(df, "ca"), 1, "total_accuracy")[1],
          best_family |->
             [d \in {"sf", "ca"} |->
                 NLargest(RowsOf(family_best, d), 1, "total_accuracy")[1]],
          best_company |->
             [d \in {"sf", "ca"} |->
                 NLargest(RowsOf(company_best, d), 1, "total_accuracy")[1]],
          advantage |-> [d \in {"sf", "ca"} |-> Advantage(df, d)],
          sf_mean |-> MeanCol(RowsOf(df, "sf"), "total_accuracy"),
          ca_mean |-> MeanCol(RowsOf(df, "ca"), "total_accuracy")]
    /\ pc' = "done"
    /\ UNCHANGED <<eval_data, df, top_n, family_best, thinking_comparison,
                   thinking_improvements, company_best, dataset_stats,
                   common_models, comparison_df, token_df, thinking_tokens,
                   complexity_perf, generation_perf, model_name, cat, complexity>>

Next ==
    \/ Merge
    \/ Flatten
    \/ TopN
    \/ FamilyBest
    \/ ThinkingComparison
    \/ PairedImprovement
    \/ CompanyBest
    \/ CrossDataset
    \/ TokenUsage
    \/ Complexity
    \/ Generation
    \/ Summary

Spec == Init /\ [][Next]_vars

----------------------------------------------------------------------------
(* The classifier alone, over bounded inputs *)

InitCat ==
    /\ pc = "categorize"
    /\ model_name \in ClassifierInputs
    /\ cat = Unset /\ complexity = Unset
    /\ eval_data = Unset /\ df = Unset /\ top_n = Unset
    /\ family_best = Unset
    /\ thinking_comparison = Unset /\ thinking_improvements = Unset
    /\ company_best = Unset /\ dataset_stats = Unset
    /\ common_models = Unset /\ comparison_df = Unset
    /\ token_df = Unset /\ thinking_tokens = Unset
    /\ complexity_perf = Unset /\ generation_perf = Unset
    /\ summary = Unset

\* family, company, thinking = categorize_model(model)
Categorize ==
    /\ pc = "categorize"
    /\ cat' = categorize_model(model_name)
    /\ pc' = "categorized"
    /\ UNCHANGED <<eval_data, df, top_n, family_best, thinking_comparison,
                   thinking_improvements, company_best, dataset_stats,
                   common_models, comparison_df, token_df, thinking_tokens,
                   complexity_perf, generation_perf, summary, model_name, complexity>>

NextCat == Categorize

SpecCat == InitCat /\ [][NextCat]_vars

----------------------------------------------------------------------------
(* Properties of the classifier, checked under SpecCat *)

Families == {"o-series", "gpt", "claude", "grok", "deepseek", "gemini",
             "llama", "kimi", "other"}
Companies == {"openai", "anthropic", "google", "x-ai", "deepseek",
              "moonshot", "meta", "other"}

ClassificationKeywords ==
    { kw_o3, kw_o4, kw_gpt, kw_claude, kw_grok, kw_deepseek, kw_gemini,
      kw_llama, kw_kimi, kw_thinking }

NoKeyword(name) ==
    \A k \in ClassificationKeywords : ~Contains(Lower(name), k)

DefaultClassification ==
    [family |-> "other", company |-> "other", is_thinking |-> FALSE]

\* C1: categorize_model is total: every name (the empty one, names of any
\* letter case) gets a family of the enumeration, a company of the
\* enumeration and a boolean flag, and a name that contains none of the
\* classification keywords (letter case ignored) gets exactly
\* (other, other, false).
C1_ClassifierTotal ==
    pc = "categorized" =>
        /\ cat.family \in Families
        /\ cat.company \in Companies
        /\ cat.is_thinking \in BOOLEAN
        /\ NoKeyword(model_name) => cat = DefaultClassification

\* a name without keyword that still carries text of a marker ("x-r1")
C1_Witness ==
    /\ pc = "categorized"
    /\ model_name = <<"x", "-", "r", "1">>
    /\ NoKeyword(model_name)
    /\ cat = DefaultClassification

\* C2: is_thinking is true whenever the lower-cased name contains
\* '--thinking', or starts with 'o3' or 'o4', or the family returned for
\* the name is gemini or grok.
C2_ThinkingFlag ==
    pc = "categorized" =>
        ( ( \/ Contains(Lower(model_name), kw_thinking)
            \/ StartsWith(Lower(model_name), kw_o3)
            \/ StartsWith(Lower(model_name), kw_o4)
            \/ cat.family \in {"gemini", "grok"} )
          => cat.is_thinking = TRUE )

\* a gemini-family name with no other marker
C2_Witness ==
    /\ pc = "categorized"
    /\ model_name = kw_gemini \o <<"x">>
    /\ cat.family = "gemini"
    /\ cat.is_thinking = TRUE

Owner ==
    [f \in Families |->
        CASE f = "o-series" -> "openai"
          [] f = "gpt"      -> "openai"
          [] f = "claude"   -> "anthropic"
          [] f = "grok"     -> "x-ai"
          [] f = "deepseek" -> "deepseek"
          [] f = "gemini"   -> "google"
          [] f = "llama"    -> "meta"
          [] f = "kimi"     -> "moonshot"
          [] f = "other"    -> "other"]

\* C10: the company returned for a name is the owner of the family returned
\* for it, also for names that hold keywords of several families.
C10_CompanyOwnsFamily ==
    pc = "categorized" => cat.company = Owner[cat.family]

----------------------------------------------------------------------------
(* Properties of the script, checked under Spec *)

Datasets == {"sf", "ca"}

\* the cells in script order; Past(c) holds once cell c has run
Cells == <<"merge", "flatten", "top_n", "family_best", "thinking_comparison",
           "thinking_improvements", "company_best", "cross_dataset",
           "token_usage", "complexity", "generation", "summary", "done">>

Past(c) ==
    \E i, j \in 1..Len(Cells) : Cells[i] = c /\ Cells[j] = pc /\ i < j

\* the (model, metrics) items of a dataset of the merged data
Items(d) == { eval_data[d][i] : i \in 1..Len(eval_data[d]) }

\* positions of the rows of a table for one (dataset, model)
RowIdx(table, d, m) ==
    { i \in 1..Len(table) : table[i].dataset = d /\ table[i].model = m }

StoredOrSum(data) ==
    IF "totalAccuracy" \in DOMAIN data
    THEN data.totalAccuracy
    ELSE data.exactAccuracy + data.mostlyAccuracy

\* C3: the total_accuracy of a record's row in the flattened table, and in
\* the token table, is the stored totalAccuracy when the record has one and
\* exactAccuracy + mostlyAccuracy otherwise; the supplemental record of
\* claude-opus-4-20250514--thinking in sf (0.16 exact, 0.06 mostly) gets 0.22.
C3_TotalAccuracy ==
    /\ Past("flatten") =>
         /\ \A d \in Datasets : \A it \in Items(d) :
              /\ Cardinality(RowIdx(df, d, it[1])) = 1
              /\ \A i \in RowIdx(df, d, it[1]) :
                    df[i].total_accuracy = StoredOrSum(it[2])
         /\ \A i \in RowIdx(df, "sf", m_opus \o kw_thinking) :
              /\ df[i].exact_accuracy = 160 /\ df[i].mostly_accuracy = 60
              /\ df[i].total_accuracy = 220
    /\ Past("token_usage") =>
         \A n \in 1..Len(token_df) :
            \E it \in Items(token_df[n].dataset) :
               /\ it[1] = token_df[n].model
               /\ token_df[n].total_accuracy = StoredOrSum(it[2])

\* both kinds of record are in the tables: one with a stored total that is
\* not the sum, one without a stored total
C3_Witness ==
    /\ Past("flatten") /\ Past("token_usage")
    /\ \E d \in Datasets : \E it \in Items(d) :
          /\ "totalAccuracy" \in DOMAIN it[2]
          /\ it[2].totalAccuracy # it[2].exactAccuracy + it[2].mostlyAccuracy
          /\ \E n \in 1..Len(token_df) :
                token_df[n].dataset = d /\ token_df[n].model = it[1]
    /\ \E d \in Datasets : \E it \in Items(d) :
          "totalAccuracy" \notin DOMAIN it[2]

BaseRow(r) == [c \in BaseColumns |-> r[c]]

\* best holds, for each non-empty (dataset, key) group of df, exactly one
\* row: the first row of the group, in table order, that attains the
\* group's maximal total_accuracy; and nothing else
GroupBestOK(best, keycol, keys) ==
    /\ \A d \in Datasets : \A k \in keys :
         LET idx == GroupIdx(df, keycol, d, k)
             sel == { n \in 1..Len(best) :
                        best[n].dataset = d /\ best[n][keycol] = k }
         IN  IF idx = {} THEN sel = {}
             ELSE /\ Cardinality(sel) = 1
                  /\ \A n \in sel : \E i \in idx :
                       /\ best[n] = BaseRow(df[i])
                       /\ \A j \in idx :
                            df[j].total_accuracy <= best[n].total_accuracy
                       /\ \A j \in idx :
                            j < i => df[j].total_accuracy < df[i].total_accuracy
    /\ \A n \in 1..Len(best) :
         best[n].dataset \in Datasets /\ best[n][keycol] \in keys

\* C4: family_best and company_best hold exactly one row per non-empty
\* group, a member of the group whose total_accuracy is at least that of
\* every row of the group; among rows tied for the maximum the first in
\* table order is the one selected.
C4_GroupBest ==
    /\ Past("family_best") => GroupBestOK(family_best, "family", Families)
    /\ Past("company_best") => GroupBestOK(company_best, "company", Companies)

\* two rows of one family tie for the maximum, and both tables are built
C4_Witness ==
    /\ Past("family_best") /\ Past("company_best")
    /\ \E i, j \in 1..Len(df) :
          /\ i < j
          /\ df[i].dataset = df[j].dataset /\ df[i].family = df[j].family
          /\ df[i].total_accuracy = df[j].total_accuracy
          /\ \A k \in GroupIdx(df, "family", df[i].dataset, df[i].family) :
                df[k].total_accuracy <= df[i].total_accuracy
          /\ \E n \in 1..Len(family_best) : family_best[n] = BaseRow(df[i])

\* C5: the token table has a row for a record exactly when the merged
\* record carries avgOutputTokens, with
\* efficiency = total_accuracy / avgOutputTokens * 1000; a record without
\* avgOutputTokens has no token row but keeps its row in the flattened table.
C5_TokenEfficiency ==
    Past("token_usage") =>
        \A d \in Datasets : \A it \in Items(d) :
            /\ Cardinality(RowIdx(df, d, it[1])) = 1
            /\ IF "avgOutputTokens" \in DOMAIN it[2]
               THEN /\ Cardinality(RowIdx(token_df, d, it[1])) = 1
                    /\ \A n \in RowIdx(token_df, d, it[1]) :
                          /\ token_df[n].avg_tokens = it[2].avgOutputTokens
                          /\ token_df[n].efficiency # InfOrNaN
                          /\ token_df[n].efficiency[2] > 0
                          /\ token_df[n].efficiency[1] * it[2].avgOutputTokens =
                                StoredOrSum(it[2]) * 1000
                                    * token_df[n].efficiency[2]
               ELSE RowIdx(token_df, d, it[1]) = {}

\* a dataset with a record that has token data and records that have none
C5_Witness ==
    /\ Past("token_usage")
    /\ \E d \in Datasets :
          /\ \E it \in Items(d) :
                /\ "avgOutputTokens" \in DOMAIN it[2]
                /\ StoredOrSum(it[2]) > 0
                /\ RowIdx(token_df, d, it[1]) # {}
          /\ \E it \in Items(d) :
                /\ "avgOutputTokens" \notin DOMAIN it[2]
                /\ RowIdx(token_df, d, it[1]) = {}
                /\ RowIdx(df, d, it[1]) # {}

Present(d, m) == RowIdx(df, d, m) # {}

ModelNames(d) == { df[i].model : i \in { j \in 1..Len(df) : df[j].dataset = d } }

TotalOf(d, m) == df[CHOOSE i \in RowIdx(df, d, m) : TRUE].total_accuracy

EntriesFor(d, b) ==
    { n \in 1..Len(thinking_improvements) :
        /\ thinking_improvements[n].dataset = d
        /\ thinking_improvements[n].base_model = b }

\* the entries of the bases in B are exactly the pairs present, one entry
\* each, with improvement = thinking total - base total; and every entry
\* is about a pair that is present
PairsCovered(d, B) ==
    /\ \A b \in B :
         Present(d, b \o kw_thinking) =>
            /\ Cardinality(EntriesFor(d, b)) = 1
            /\ \A n \in EntriesFor(d, b) :
                  thinking_improvements[n].improvement =
                      TotalOf(d, b \o kw_thinking) - TotalOf(d, b)
    /\ \A n \in 1..Len(thinking_improvements) :
         thinking_improvements[n].dataset = d =>
            /\ Present(d, thinking_improvements[n].base_model)
            /\ Present(d, thinking_improvements[n].base_model \o kw_thinking)

C7_RelativeImprovementGuarded ==
    Past("thinking_improvements") =>
        /\ \A n \in 1..Len(thinking_improvements) :
              LET e == thinking_improvements[n]
              IN  /\ e.relative_improvement # InfOrNaN
                  /\ e.base_accuracy > 0 =>
                        /\ e.relative_improvement[2] > 0
                        /\ e.relative_improvement[1] * e.base_accuracy =
                              e.improvement * e.relative_improvement[2]
                  /\ e.base_accuracy = 0 => e.relative_improvement = <<0, 1>>
        /\ \A d \in Datasets : \A b \in ModelNames(d) :
              ( /\ ~Contains(b, kw_thinking)
                /\ Present(d, b \o kw_thinking)
                /\ TotalOf(d, b) = 0 ) => EntriesFor(d, b) # {}

\* an entry whose base accuracy is 0 and whose thinking accuracy is not
C7_Witness ==
    /\ Past("thinking_improvements")
    /\ \E n \in 1..Len(thinking_improvements) :
          /\ thinking_improvements[n].base_accuracy = 0
          /\ thinking_improvements[n].improvement > 0
          /\ thinking_improvements[n].relative_improvement = <<0, 1>>

InUnit(x) == 0 <= x /\ x <= 1000

RowValid(r) ==
    /\ InUnit(r.exact_accuracy) /\ InUnit(r.mostly_accuracy)
    /\ InUnit(r.total_accuracy)
    /\ r.total_accuracy >= r.exact_accuracy

RecordValid(data) ==
    /\ InUnit(data.exactAccuracy) /\ InUnit(data.mostlyAccuracy)
    /\ InUnit(StoredOrSum(data))
    /\ StoredOrSum(data) >= data.exactAccuracy

\* C9 as stated: every row of the flattened table has its three accuracies
\* in [0,1] and total_accuracy >= exact_accuracy, whatever the input file
\* holds.
C9_RowsInRange ==
    Past("flatten") => \A i \in 1..Len(df) : RowValid(df[i])

\* C9 (amended): a row of the flattened table satisfies the invariant
\* exactly when its record does (exactAccuracy, mostlyAccuracy and the
\* stored-or-summed totalAccuracy in [0,1], total >= exact); the rows of the
\* supplemental records always do.
C9_RowsMirrorRecords ==
    Past("flatten") =>
        /\ \A d \in Datasets : \A it \in Items(d) :
              \A i \in RowIdx(df, d, it[1]) :
                 RowValid(df[i]) <=> RecordValid(it[2])
        /\ \A d \in Datasets : \A k \in 1..Len(thinking_results[d]) :
              /\ Present(d, thinking_results[d][k][1])
              /\ \A i \in RowIdx(df, d, thinking_results[d][k][1]) :
                    RowValid(df[i])

\* the table holds a valid row that came from the file and an invalid one
C9_Witness ==
    /\ Past("flatten")
    /\ \E i, j \in 1..Len(df) :
          /\ ~Contains(df[i].model, kw_thinking) /\ RowValid(df[i])
          /\ ~RowValid(df[j])

----------------------------------------------------------------------------
(* get_complexity alone, over bounded inputs *)

\* the keywords of the complexity table, a version suffix, neutral text and
\* an upper-case spelling
ComplexityFragments ==
    { kw_haiku, kw_mini, kw_sonnet, kw_gpt4, kw_opus, kw_turbo, kw_o3, kw_o4,
      kw_grok, kw_gemini,
      <<"-","2","_","5","-","p","r","o">>, <<"x">>,
      <<"G","e","m","i","n","i">> }

RECURSIVE ComplexityNames(_)
ComplexityNames(k) ==
    IF k = 0 THEN { <<>> }
    ELSE LET shorter == ComplexityNames(k - 1)
         IN  shorter \cup { s \o f : s \in shorter, f \in ComplexityFragments }

InitCx ==
    /\ pc = "get_complexity"
    /\ model_name \in ComplexityNames(MaxFragments)
    /\ complexity = Unset /\ cat = Unset
    /\ eval_data = Unset /\ df = Unset /\ top_n = Unset
    /\ family_best = Unset
    /\ thinking_comparison = Unset /\ thinking_improvements = Unset
    /\ company_best = Unset /\ dataset_stats = Unset
    /\ common_models = Unset /\ comparison_df = Unset
    /\ token_df = Unset /\ thinking_tokens = Unset
    /\ complexity_perf = Unset /\ generation_perf = Unset
    /\ summary = Unset

\* one application of df['model'].apply(get_complexity)
GetComplexity ==
    /\ pc = "get_complexity"
    /\ complexity' = get_complexity(model_name)
    /\ pc' = "got_complexity"
    /\ UNCHANGED <<eval_data, df, top_n, family_best, thinking_comparison,
                   thinking_improvements, company_best, dataset_stats,
                   common_models, comparison_df, token_df, thinking_tokens,
                   complexity_perf, generation_perf, summary, model_name, cat>>

NextCx == GetComplexity

SpecCx == InitCx /\ [][NextCx]_vars

\* the keywords the claim excludes
EarlierThanGemini ==
    { kw_haiku, kw_sonnet, kw_gpt4, kw_opus, kw_turbo, kw_o3, kw_o4, kw_grok }

\* C11: a model name that contains 'gemini' and none of haiku, sonnet,
\* gpt-4, opus, turbo, o3, o4, grok (for example 'gemini-2_5-pro') gets
\* complexity bucket 4, the value the table gives the keyword 'gemini'.
C11_GeminiBucket ==
    pc = "got_complexity" =>
        ( ( /\ Contains(Lower(model_name), kw_gemini)
            /\ \A k \in EarlierThanGemini : ~Contains(Lower(model_name), k) )
          => complexity = 4 )

----------------------------------------------------------------------------
(* The cross-dataset pass, checked under Spec *)

SupplementalModels(d) ==
    { thinking_results[d][k][1] : k \in 1..Len(thinking_results[d]) }

\* C12: when load and merge succeed, both datasets hold the three
\* supplemental '--thinking' models, so common_models is non-empty,
\* comparison_df is assigned (one row per common model) before the chart
\* code reads it, and the pass never stops on an undefined comparison_df.
C12_ComparisonAlwaysDefined ==
    /\ pc # "NameError"
    /\ Past("merge") =>
          \A d \in Datasets : SupplementalModels(d) \subseteq
                                 { eval_data[d][i][1] : i \in 1..Len(eval_data[d]) }
    /\ Past("cross_dataset") =>
          /\ common_models # {}
          /\ SupplementalModels("sf") \cap SupplementalModels("ca")
                \subseteq common_models
          /\ { r.model : r \in comparison_df } = common_models

\* the file's two datasets share no model, and the pass has run: the common
\* models are exactly the three supplemental ones
C12_Witness ==
    /\ Past("cross_dataset")
    /\ Len(eval_data["sf"]) = 4 /\ Len(eval_data["ca"]) = 3
    /\ Cardinality(common_models) = 3
    /\ Cardinality(comparison_df) = 3

====
